---- MODULE Spec2Model ----
(***************************************************************************)
(* goxkit/tracing: the AMQP header carrier (AMQPHeader), trace-context     *)
(* propagation through it (AMQPPropagator, NewConsumerSpan), the zap log   *)
(* field (Format) and the tracer provider installation (Install).          *)
(*                                                                         *)
(* Strings are sequences of byte codes (ASCII), so that strings.ToLower    *)
(* and sort.Strings are computed on the bytes as Go computes them.         *)
(***************************************************************************)
EXTENDS Integers, Sequences, FiniteSets, TLC

VARIABLES
    headers,    \* the message's amqp.Table: [isNil, m], m maps stored keys to values
    setLog,     \* history: keys the caller passed to Set since the table was created
    onlySet,    \* history: the table was created empty and changed by those Sets alone
    lastSet,    \* history: the latest Set (key, val), while nothing else wrote since
    produced,   \* history: span context and baggage injected into this table when fresh
    last,       \* the latest carrier or Inject call: operation, arguments and result
    cons,       \* the latest NewConsumerSpan call: arguments, context and span returned
    env,        \* cfgs.TracerProvider and otel's global tracer provider and propagator
    inst,       \* the latest Install call: cfgs.OTLPConfigs.Enabled and what it returned
    cur,        \* a context of the application and the span it carries
    fmt,        \* the latest Format call: its context and the field returned
    thr,        \* the goroutines calling the carrier: position, carrier, call, result
    sync        \* whether callers hold a mutex around each call, its holder, fatal errors

messageVars == <<headers, setLog, onlySet, lastSet, produced, last, cons>>

tracingVars == <<env, inst, cur, fmt>>

sharingVars == <<thr, sync>>

vars == <<headers, setLog, onlySet, lastSet, produced, last, cons, env, inst, cur, fmt,
          thr, sync>>

----------------------------------------------------------------------------
(* Bounds *)

MaxSets == 3       \* Set calls per message
MaxEntries == 3    \* entries a table holds
MaxId == 2         \* distinct non-zero trace ids and span ids in play
MaxProviders == 2  \* tracer providers created by Install calls

----------------------------------------------------------------------------
(* Strings as byte sequences *)

EmptyString == <<>>

\* Header keys callers and transports use.
Key_a == <<97>>
Key_A == <<65>>
Key_b == <<98>>
Key_B == <<66>>
Key_c == <<99>>
Key_Ab == <<65, 98>>
Key_foo == <<102, 111, 111>>
Key_traceparent == <<116, 114, 97, 99, 101, 112, 97, 114, 101, 110, 116>>
Key_Traceparent == <<84, 114, 97, 99, 101, 112, 97, 114, 101, 110, 116>>

\* keys the carrier's callers pass
KeyInputs == {Key_a, Key_A, Key_b, Key_c, Key_Ab}

\* keys as other writers and transports store them
StoredKeyInputs == {Key_a, Key_A, Key_B, Key_Ab}

Val_bar == <<98, 97, 114>>
Val_x == <<120>>

IsUpper(c) == c \in 65..90

\* unicode.ToLower on an ASCII byte
ToLowerByte(c) == IF IsUpper(c) THEN c + 32 ELSE c

\* strings.ToLower
ToLower(s) == [i \in DOMAIN s |-> ToLowerByte(s[i])]

\* Go's s < t on strings: bytewise lexicographic, a proper prefix is smaller
RECURSIVE StrLess(_, _)
StrLess(s, t) ==
    IF t = <<>> THEN FALSE
    ELSE IF s = <<>> THEN TRUE
    ELSE IF Head(s) # Head(t) THEN Head(s) < Head(t)
    ELSE StrLess(Tail(s), Tail(t))

\* insertion of one string into an ascending slice
RECURSIVE InsertSorted(_, _)
InsertSorted(k, q) ==
    IF q = <<>> THEN <<k>>
    ELSE IF StrLess(k, Head(q)) THEN <<k>> \o q
    ELSE <<Head(q)>> \o InsertSorted(k, Tail(q))

\* sort.Strings over the keys collected by ranging over the map (any order)
RECURSIVE SortStrings(_)
SortStrings(S) ==
    IF S = {} THEN <<>>
    ELSE LET k == CHOOSE x \in S : TRUE
         IN InsertSorted(k, SortStrings(S \ {k}))

----------------------------------------------------------------------------
(* amqp.Table and its values *)

StringValue(s) == [kind |-> "string", s |-> s]
IntValue == [kind |-> "int", s |-> EmptyString]

NilTable == [isNil |-> TRUE, m |-> <<>>]
EmptyTable == [isNil |-> FALSE, m |-> <<>>]

\* h[key] = val on a Go map; writing a nil map panics
MapStore(h, key, val) ==
    [isNil |-> FALSE,
     m |-> [k \in (DOMAIN h.m) \cup {key} |-> IF k = key THEN val ELSE h.m[k]]]

----------------------------------------------------------------------------
(* AMQPHeader: the TextMapCarrier over amqp.Table *)

\* variant of Set that returns silently on a nil table
SetIgnoresNil(h, key, val) ==
    IF h.isNil THEN [h |-> h, panic |-> FALSE]
    ELSE [h |-> MapStore(h, ToLower(key), StringValue(val)), panic |-> FALSE]

\* variant of Set that leaves the new entry alone in the table
SetDropsOthers(h, key, val) ==
    IF h.isNil THEN [h |-> h, panic |-> TRUE]
    ELSE [h |-> MapStore(EmptyTable, ToLower(key), StringValue(val)), panic |-> FALSE]

\* func (h AMQPHeader) Set(key, val string): h[key] = val panics on a nil map
Set(h, key, val) ==
    IF h.isNil THEN [h |-> h, panic |-> TRUE]
    ELSE [h |-> MapStore(h, ToLower(key), StringValue(val)), panic |-> FALSE]

\* variant of Get that looks the key up as given
GetKeepsCase(h, key) ==
    IF key \notin DOMAIN h.m THEN EmptyString
    ELSE IF h.m[key].kind # "string" THEN EmptyString
    ELSE h.m[key].s

\* variant of Get that formats a value that is not a string
GetCoerces(h, key) ==
    LET k == ToLower(key)
    IN IF k \notin DOMAIN h.m THEN EmptyString
       ELSE IF h.m[k].kind # "string" THEN <<49>>
       ELSE h.m[k].s

\* func (h AMQPHeader) Get(key string) string; reading a nil map finds nothing
Get(h, key) ==
    LET k == ToLower(key)
    IN IF k \notin DOMAIN h.m THEN EmptyString
       ELSE IF h.m[k].kind # "string" THEN EmptyString
       ELSE h.m[k].s

\* variant of Keys without sort.Strings: one order the map may be ranged in
KeysUnsorted(h) ==
    LET RECURSIVE Enum(_)
        Enum(S) == IF S = {} THEN <<>>
                   ELSE LET k == CHOOSE x \in S : \A y \in S : y = x \/ StrLess(y, x)
                        IN <<k>> \o Enum(S \ {k})
    IN Enum(DOMAIN h.m)

\* variant of Keys that reports the keys in lower case
KeysLowered(h) == SortStrings({ToLower(k) : k \in DOMAIN h.m})

\* func (h AMQPHeader) Keys() []string
Keys(h) == SortStrings(DOMAIN h.m)

\* variant of the conversion that gives the carrier a table of its own
AMQPHeaderCopy(t) == [kind |-> "copy", own |-> t]

\* type AMQPHeader amqp.Table: the conversion AMQPHeader(t) of a map value gives the
\* same map, not a copy
AMQPHeader(t) == [kind |-> "alias", own |-> NilTable]

\* the table a carrier reads and writes, t being the table it was built over
TableOf(c, t) == IF c.kind = "alias" THEN t ELSE c.own

\* t after new was stored through carrier c
WriteBack(c, t, new) == IF c.kind = "alias" THEN new ELSE t

\* variant in which no method writes the map
MapAccessAllReads(op) == "read"

\* the map access each method makes: h[key] = val, val, ok := h[key], range h
MapAccess(op) == IF op = "Set" THEN "write" ELSE "read"

----------------------------------------------------------------------------
(* Trace identity: trace.TraceID (16 bytes), trace.SpanID (8 bytes), each byte two
   hex digits; an id is modelled as the sequence of its 4-bit digits *)

TraceIDDigits == 32
SpanIDDigits == 16

\* the id whose last digit is n and whose other digits are 0; n = 0 is the zero id
MkID(width, n) == [i \in 1..width |-> IF i = width THEN n ELSE 0]

IsZero(id) == \A i \in DOMAIN id : id[i] = 0

EmptySpanContext ==
    [traceID |-> MkID(TraceIDDigits, 0), spanID |-> MkID(SpanIDDigits, 0),
     sampled |-> FALSE, remote |-> FALSE]

\* SpanContext.IsValid
IsValid(sc) == ~IsZero(sc.traceID) /\ ~IsZero(sc.spanID)

\* hex.Encode, also TraceID.String and SpanID.String: lower-case digits
HexChar(d) == IF d < 10 THEN 48 + d ELSE 87 + d
HexEncode(id) == [i \in DOMAIN id |-> HexChar(id[i])]

\* hex.Decode accepts both cases of a-f
IsHexChar(c) == c \in 48..57 \/ c \in 97..102 \/ c \in 65..70
FromHexChar(c) == IF c \in 48..57 THEN c - 48
                  ELSE IF c \in 97..102 THEN c - 87
                  ELSE c - 55

Dash == <<45>>

\* strings.Cut(s, "-"): around the first "-", or all of s and "" when there is none
Cut(s) ==
    LET at == {i \in DOMAIN s : s[i] = Dash[1]}
    IN IF at = {} THEN [before |-> s, after |-> EmptyString]
       ELSE LET i == CHOOSE x \in at : \A y \in at : x <= y
            IN [before |-> SubSeq(s, 1, i - 1), after |-> SubSeq(s, i + 1, Len(s))]

\* propagation.upperHex
upperHex(v) == \E i \in DOMAIN v : v[i] \in 65..70

\* variant of extractPart without the upperHex test
extractPartAnyCase(h, n) ==
    LET c == Cut(h)
        good == /\ Len(c.before) = n
                /\ \A i \in DOMAIN c.before : IsHexChar(c.before[i])
    IN [ok |-> good,
        dst |-> IF good THEN [i \in DOMAIN c.before |-> FromHexChar(c.before[i])]
                ELSE <<>>,
        rest |-> c.after]

\* propagation.extractPart: the next "-"-separated part, n hex digits, decoded
extractPart(h, n) ==
    LET c == Cut(h)
        good == /\ Len(c.before) = n
                /\ ~upperHex(c.before)
                /\ \A i \in DOMAIN c.before : IsHexChar(c.before[i])
    IN [ok |-> good,
        dst |-> IF good THEN [i \in DOMAIN c.before |-> FromHexChar(c.before[i])]
                ELSE <<>>,
        rest |-> c.after]

ByteValue(d) == d[1] * 16 + d[2]

\* the traceparent value propagation.TraceContext.Inject writes for sc
TraceparentOf(sc) ==
    <<48, 48>> \o Dash \o HexEncode(sc.traceID) \o Dash \o HexEncode(sc.spanID)
        \o Dash \o (IF sc.sampled THEN <<48, 49>> ELSE <<48, 48>>)

\* variant of TraceContext.Inject that writes the entry for every span context
TraceContextInjectUnchecked(ctx, h) == Set(h, Key_traceparent, TraceparentOf(ctx.sc))

\* propagation.TraceContext.Inject: writes nothing for an invalid span context
TraceContextInject(ctx, h) ==
    IF ~IsValid(ctx.sc) THEN [h |-> h, panic |-> FALSE]
    ELSE Set(h, Key_traceparent, TraceparentOf(ctx.sc))

\* propagation.TraceContext.extract
TraceContextExtract(h) ==
    LET tp == Get(h, Key_traceparent)
        ver == extractPart(tp, 2)
        tid == extractPart(ver.rest, TraceIDDigits)
        sid == extractPart(tid.rest, SpanIDDigits)
        opts == extractPart(sid.rest, 2)
    IN IF tp = EmptyString THEN EmptySpanContext
       ELSE IF ~ver.ok THEN EmptySpanContext
       ELSE IF ByteValue(ver.dst) > 254 THEN EmptySpanContext
       ELSE IF ~tid.ok THEN EmptySpanContext
       ELSE IF ~sid.ok THEN EmptySpanContext
       ELSE IF ~opts.ok THEN EmptySpanContext
       ELSE IF ByteValue(ver.dst) = 0 /\ (opts.rest # EmptyString \/ ByteValue(opts.dst) > 2)
            THEN EmptySpanContext
       ELSE LET sc == [traceID |-> tid.dst, spanID |-> sid.dst,
                       sampled |-> ByteValue(opts.dst) % 2 = 1, remote |-> TRUE]
            IN IF IsValid(sc) THEN sc ELSE EmptySpanContext

\* A context carries a span (its span context, whether it is recording now and
\* whether End was called on it) and baggage: members (key, value), in the order
\* in which the baggage's map is ranged over.
\* context.Background(): trace.SpanFromContext gives a span that is not recording
Background ==
    [sc |-> EmptySpanContext, recording |-> FALSE, ended |-> FALSE, bag |-> <<>>]

----------------------------------------------------------------------------
(* Baggage: propagation.Baggage over baggage.String and baggage.Parse *)

Key_baggage == <<98, 97, 103, 103, 97, 103, 101>>

ListDelimiter == <<44>>
KeyValueDelimiter == <<61>>
PropertyDelimiter == <<59>>
EscapeChar == <<37>>

\* strings.Cut(s, sep) for a one-byte separator
CutAt(s, sep) ==
    LET at == {i \in DOMAIN s : s[i] = sep[1]}
    IN IF at = {} THEN [before |-> s, after |-> EmptyString, found |-> FALSE]
       ELSE LET i == CHOOSE x \in at : \A y \in at : x <= y
            IN [before |-> SubSeq(s, 1, i - 1), after |-> SubSeq(s, i + 1, Len(s)),
                found |-> TRUE]

\* strings.Split(s, ",")
RECURSIVE SplitList(_)
SplitList(s) ==
    LET c == CutAt(s, ListDelimiter)
    IN IF c.found THEN <<c.before>> \o SplitList(c.after) ELSE <<s>>

RECURSIVE Concat(_)
Concat(parts) == IF parts = <<>> THEN <<>> ELSE Head(parts) \o Concat(Tail(parts))

\* bytes a baggage value carries unescaped (baggage-octet without "%")
IsSafeValueByte(c) ==
    \/ c = 33
    \/ c \in 35..43 /\ c # EscapeChar[1]
    \/ c \in 45..58
    \/ c \in 60..91
    \/ c \in 93..126

UpperHexChar(d) == IF d < 10 THEN 48 + d ELSE 55 + d

\* baggage's valueEscape: percent-encoding of the bytes that are not safe
valueEscape(v) ==
    Concat([i \in DOMAIN v |->
               IF IsSafeValueByte(v[i]) THEN <<v[i]>>
               ELSE EscapeChar \o <<UpperHexChar(v[i] \div 16), UpperHexChar(v[i] % 16)>>])

\* url.PathUnescape: "%" must be followed by two hex digits
RECURSIVE Unescape(_)
Unescape(s) ==
    IF s = <<>> THEN [ok |-> TRUE, v |-> <<>>]
    ELSE IF Head(s) # EscapeChar[1]
    THEN LET r == Unescape(Tail(s)) IN [ok |-> r.ok, v |-> <<Head(s)>> \o r.v]
    ELSE IF Len(s) < 3 \/ ~IsHexChar(s[2]) \/ ~IsHexChar(s[3])
    THEN [ok |-> FALSE, v |-> <<>>]
    ELSE LET r == Unescape(SubSeq(s, 4, Len(s)))
         IN [ok |-> r.ok, v |-> <<FromHexChar(s[2]) * 16 + FromHexChar(s[3])>> \o r.v]

\* Baggage.String: the members as key=value, joined by ","
BaggageString(bag) ==
    Concat([i \in DOMAIN bag |->
               (IF i = 1 THEN <<>> ELSE ListDelimiter)
                   \o bag[i].key \o KeyValueDelimiter \o valueEscape(bag[i].value)])

\* baggage's parseMember: properties cut off, key and value around the first "="
parseMember(member) ==
    LET keyValue == CutAt(member, PropertyDelimiter).before
        kv == CutAt(keyValue, KeyValueDelimiter)
        value == Unescape(kv.after)
    IN [ok |-> kv.found /\ kv.before # EmptyString /\ value.ok,
        key |-> kv.before, value |-> value.v]

\* baggage.Parse, the loop over the members: one that does not parse is an error,
\* a later member replaces an earlier one with the same key
parseMembers(memberStrs) == [i \in DOMAIN memberStrs |-> parseMember(memberStrs[i])]

collectMembers(members) ==
    IF \E i \in DOMAIN members : ~members[i].ok THEN [ok |-> FALSE, bag |-> <<>>]
    ELSE [ok |-> TRUE,
          bag |-> Concat([i \in DOMAIN members |->
                             IF \A j \in DOMAIN members :
                                    j > i => members[j].key # members[i].key
                             THEN <<[key |-> members[i].key, value |-> members[i].value]>>
                             ELSE <<>>])]

\* baggage.Parse
BaggageParse(bStr) == collectMembers(parseMembers(SplitList(bStr)))

\* propagation.Baggage.Inject: writes nothing for a baggage without members
BaggageInject(ctx, h) ==
    LET bStr == BaggageString(ctx.bag)
    IN IF bStr = EmptyString THEN [h |-> h, panic |-> FALSE]
       ELSE Set(h, Key_baggage, bStr)

\* baggage.ContextWithBaggage, reached when the header parsed
ContextWithBaggage(ctx, parsed) == IF ~parsed.ok THEN ctx ELSE [ctx EXCEPT !.bag = parsed.bag]

\* propagation.Baggage.Extract on the header value bStr: the parent context when
\* there is no baggage header or it does not parse
extractBaggage(ctx, bStr) ==
    IF bStr = EmptyString THEN ctx ELSE ContextWithBaggage(ctx, BaggageParse(bStr))

\* propagation.Baggage.Extract
BaggageExtract(ctx, h) == extractBaggage(ctx, Get(h, Key_baggage))

----------------------------------------------------------------------------
(* AMQPPropagator, tracers and NewConsumerSpan *)

\* propagation.TraceContext.Extract: the parent context when no valid span context
\* is found, else a context carrying the remote span context
ContextWithRemoteSpanContext(ctx, sc) ==
    IF IsValid(sc) THEN [ctx EXCEPT !.sc = sc, !.recording = FALSE, !.ended = FALSE]
    ELSE ctx

TraceContextExtractInto(ctx, h) == ContextWithRemoteSpanContext(ctx, TraceContextExtract(h))

\* variant of the propagator without propagation.Baggage{}
InjectTraceContextOnly(ctx, h) == TraceContextInject(ctx, h)

\* the second propagator's Inject, r being the outcome of the first: a panic of
\* the first Set ends the call
ThenBaggageInject(ctx, r) == IF r.panic THEN r ELSE BaggageInject(ctx, r.h)

\* AMQPPropagator.Inject: TraceContext{}, then Baggage{}
Inject(ctx, h) == ThenBaggageInject(ctx, TraceContextInject(ctx, h))

\* AMQPPropagator.Extract: TraceContext{}, then Baggage{}
Extract(ctx, h) == BaggageExtract(TraceContextExtractInto(ctx, h), h)

\* the samplers of the providers Install creates: sdktrace.AlwaysSample() on the OTLP
\* path, the SDK's default ParentBased(AlwaysSample()) on the no-op path
Tracers == {[sampler |-> "AlwaysSample"], [sampler |-> "ParentBased"]}

ShouldSample(tracer, psc) ==
    IF tracer.sampler = "AlwaysSample" THEN TRUE
    ELSE IF IsValid(psc) THEN psc.sampled
    ELSE TRUE

\* tracer.Start(ctx, name) of an SDK tracer; rndT and rndS are the ids its
\* generator draws. The span keeps the trace of a valid parent and gets a new span id.
Start(tracer, ctx, name, rndT, rndS) ==
    LET psc == ctx.sc
        keep == ShouldSample(tracer, psc)
        sc == [traceID |-> IF IsValid(psc) THEN psc.traceID ELSE rndT,
               spanID |-> rndS, sampled |-> keep, remote |-> FALSE]
        span == [name |-> name, sc |-> sc, parent |-> psc, recording |-> keep]
    IN [ctx |-> [ctx EXCEPT !.sc = sc, !.recording = keep, !.ended = FALSE],
        span |-> span]

ConsumePrefix == <<99, 111, 110, 115, 117, 109, 101, 46>>

\* what NewConsumerSpan returns, r being the context and span tracer.Start
\* returned, and the header table after the call
Returned(r, header) == [ctx |-> r.ctx, span |-> r.span, header |-> header]

\* variant of NewConsumerSpan that starts the span without extracting
NewConsumerSpanFromBackground(tracer, header, typ, rndT, rndS) ==
    Returned(Start(tracer, Background, ConsumePrefix \o typ, rndT, rndS), header)

\* variant of NewConsumerSpan that names the span by typ alone
NewConsumerSpanNamedTyp(tracer, header, typ, rndT, rndS) ==
    Returned(Start(tracer, Extract(Background, TableOf(AMQPHeader(header), header)),
                   typ, rndT, rndS),
             header)

\* variant of NewConsumerSpan that takes the traceparent entry out of the table
NewConsumerSpanTakesEntry(tracer, header, typ, rndT, rndS) ==
    Returned(Start(tracer, Extract(Background, TableOf(AMQPHeader(header), header)),
                   ConsumePrefix \o typ, rndT, rndS),
             [header EXCEPT !.m = [k \in (DOMAIN header.m) \ {Key_traceparent} |->
                                     header.m[k]]])

\* func NewConsumerSpan(tracer, header, typ): the context and span started, and the
\* header table after the call; Extract reaches the table through Get alone, which
\* reads it, a nil table included
NewConsumerSpan(tracer, header, typ, rndT, rndS) ==
    Returned(Start(tracer, Extract(Background, TableOf(AMQPHeader(header), header)),
                   ConsumePrefix \o typ, rndT, rndS),
             header)

----------------------------------------------------------------------------
(* Tracer providers: tracing.Install, otlp.Install, noop.Install *)

NilProvider == [id |-> 0, kind |-> "nil"]

\* otel's global provider before any SetTracerProvider: its tracers start spans
\* that are not recording and carry the parent's span context
DefaultGlobalProvider == [id |-> 0, kind |-> "default"]

InitialEnv ==
    [cfgTracerProvider |-> NilProvider, globalTracerProvider |-> DefaultGlobalProvider,
     globalPropagator |-> "default", created |-> 0]

\* noop.Install: sdktrace.NewTracerProvider(), stored in cfgs
NoopInstall(e) ==
    LET provider == [id |-> e.created + 1, kind |-> "noop"]
    IN [env |-> [e EXCEPT !.cfgTracerProvider = provider, !.created = @ + 1],
        provider |-> provider, err |-> FALSE, path |-> "noop"]

\* variant of otlp.Install that registers the propagator before it creates the
\* exporter
OtlpInstallRegistersFirst(e, exporterErr) ==
    IF exporterErr
    THEN [env |-> [e EXCEPT !.globalPropagator = "TraceContext"],
          provider |-> NilProvider, err |-> TRUE, path |-> "otlp"]
    ELSE LET tracerProvider == [id |-> e.created + 1, kind |-> "otlp"]
         IN [env |-> [e EXCEPT !.cfgTracerProvider = tracerProvider,
                               !.globalTracerProvider = tracerProvider,
                               !.globalPropagator = "TraceContext",
                               !.created = @ + 1],
             provider |-> tracerProvider, err |-> FALSE, path |-> "otlp"]

\* otlp.Install: returns nil and the error when the exporter cannot be created,
\* else stores the provider in cfgs and registers it and the propagator globally
OtlpInstall(e, exporterErr) ==
    IF exporterErr
    THEN [env |-> e, provider |-> NilProvider, err |-> TRUE, path |-> "otlp"]
    ELSE LET tracerProvider == [id |-> e.created + 1, kind |-> "otlp"]
         IN [env |-> [e EXCEPT !.cfgTracerProvider = tracerProvider,
                               !.globalTracerProvider = tracerProvider,
                               !.globalPropagator = "TraceContext",
                               !.created = @ + 1],
             provider |-> tracerProvider, err |-> FALSE, path |-> "otlp"]

\* variant of Install that ignores cfgs.OTLPConfigs.Enabled
InstallAlwaysNoop(e, enabled, exporterErr) == NoopInstall(e)

\* tracing.Install
Install(e, enabled, exporterErr) ==
    IF enabled THEN OtlpInstall(e, exporterErr) ELSE NoopInstall(e)

\* provider.Tracer(name).Start(ctx, name)
ProviderStart(provider, ctx, rndT, rndS) ==
    IF provider.kind = "default"
    THEN [ctx EXCEPT !.recording = FALSE, !.ended = FALSE]
    ELSE Start([sampler |-> IF provider.kind = "otlp" THEN "AlwaysSample"
                            ELSE "ParentBased"],
               ctx, EmptyString, rndT, rndS).ctx

----------------------------------------------------------------------------
(* zap: Format and traceLog *)

Skip == [type |-> "Skip", fields |-> <<>>]

\* traceLog.MarshalLogObject
MarshalLogObject(u) ==
    <<[key |-> "trace_id", str |-> u.TraceID], [key |-> "span_id", str |-> u.SpanID]>>

\* variant of Format that tests the span context instead of IsRecording
FormatWhenValid(ctx) ==
    IF ~IsValid(ctx.sc) THEN Skip
    ELSE [type |-> "Inline",
          fields |-> MarshalLogObject([TraceID |-> HexEncode(ctx.sc.traceID),
                                       SpanID |-> HexEncode(ctx.sc.spanID)])]

\* variant of Format that takes a finished span for an active one
FormatIgnoresEnd(ctx) ==
    IF ~(ctx.recording \/ ctx.ended) THEN Skip
    ELSE [type |-> "Inline",
          fields |-> MarshalLogObject([TraceID |-> HexEncode(ctx.sc.traceID),
                                       SpanID |-> HexEncode(ctx.sc.spanID)])]

\* func Format(ctx context.Context) zapcore.Field
Format(ctx) ==
    IF ~ctx.recording THEN Skip
    ELSE [type |-> "Inline",
          fields |-> MarshalLogObject([TraceID |-> HexEncode(ctx.sc.traceID),
                                       SpanID |-> HexEncode(ctx.sc.spanID)])]

----------------------------------------------------------------------------
(* Inputs of the propagation steps *)

Typ_orders == <<111, 114, 100, 101, 114, 115>>
TypInputs == {EmptyString, Typ_orders}

InputSpanContext(t, s, sampled) ==
    [traceID |-> MkID(TraceIDDigits, t), spanID |-> MkID(SpanIDDigits, s),
     sampled |-> sampled, remote |-> FALSE]

\* traceparent values that are not valid: an upper-case hex digit in the trace id,
\* an all-zero trace id, and version 00 followed by a fifth part
TP_UpperHex ==
    <<48, 48>> \o Dash \o [i \in 1..TraceIDDigits |-> IF i = TraceIDDigits THEN 65 ELSE 48]
        \o Dash \o HexEncode(MkID(SpanIDDigits, 1)) \o Dash \o <<48, 49>>
TP_ZeroTrace == TraceparentOf(InputSpanContext(0, 1, TRUE))
TP_Trailing == TraceparentOf(InputSpanContext(1, 1, TRUE)) \o Dash \o Val_x

ForeignEntries ==
    {<<Key_foo, StringValue(Val_bar)>>,
     <<Key_traceparent, IntValue>>,
     <<Key_traceparent, StringValue(TP_UpperHex)>>,
     <<Key_traceparent, StringValue(TP_ZeroTrace)>>,
     <<Key_traceparent, StringValue(TP_Trailing)>>}

----------------------------------------------------------------------------
(* The calls as steps *)

NoCall == [op |-> "none", key |-> EmptyString, val |-> EmptyString,
           ret |-> EmptyString, keys |-> <<>>, panic |-> FALSE,
           sc |-> EmptySpanContext]

NoSet == [done |-> FALSE, key |-> EmptyString, val |-> EmptyString]

NoProducer == [done |-> FALSE, sc |-> EmptySpanContext, bag |-> <<>>]

NoConsumer == [done |-> FALSE, tracer |-> [sampler |-> "none"], typ |-> EmptyString,
               ctx |-> Background,
               span |-> [name |-> EmptyString, sc |-> EmptySpanContext,
                         parent |-> EmptySpanContext, recording |-> FALSE]]

NoInstall == [done |-> FALSE, enabled |-> FALSE, provider |-> NilProvider,
              err |-> FALSE, path |-> "none"]

NoFormat == [done |-> FALSE, ctx |-> Background, field |-> Skip]

\* the two goroutines that share one message
Threads == {"producer", "other"}

NoCarrier == [kind |-> "none", own |-> NilTable]

NoThread == [pc |-> "idle", carrier |-> NoCarrier, op |-> "none", key |-> EmptyString,
             val |-> EmptyString, ret |-> EmptyString, keys |-> <<>>,
             panic |-> FALSE, raced |-> FALSE]

NoSync == [locking |-> FALSE, holder |-> "none", fatal |-> FALSE, lastDone |-> "none"]

Init ==
    /\ headers \in {EmptyTable, NilTable}
    /\ setLog = <<>>
    /\ onlySet = ~headers.isNil
    /\ lastSet = NoSet
    /\ produced = NoProducer
    /\ last = NoCall
    /\ cons = NoConsumer
    /\ env = InitialEnv
    /\ inst = NoInstall
    /\ cur = Background
    /\ fmt = NoFormat
    /\ thr = [th \in Threads |-> NoThread]
    /\ sync = NoSync

\* msg := amqplib.Publishing{Headers: amqplib.Table{}}, or a message without headers
NewMessage ==
    /\ headers' \in {EmptyTable, NilTable}
    /\ setLog' = <<>>
    /\ onlySet' = ~headers'.isNil
    /\ lastSet' = NoSet
    /\ produced' = NoProducer
    /\ last' = NoCall
    /\ cons' = NoConsumer
    /\ UNCHANGED tracingVars
    /\ UNCHANGED sharingVars

\* a call of h.Set(key, val) and what the history variables record of it
CallSet(r, key, val) ==
    /\ Len(setLog) < MaxSets
    /\ Cardinality(DOMAIN r.h.m) <= MaxEntries
    /\ headers' = r.h
    /\ setLog' = IF r.panic \/ ~onlySet THEN setLog ELSE Append(setLog, key)
    /\ lastSet' = IF r.panic THEN NoSet ELSE [done |-> TRUE, key |-> key, val |-> val]
    /\ UNCHANGED onlySet

DoSet ==
    \E key \in KeyInputs, val \in {Val_bar, Val_x} :
        /\ CallSet(Set(headers, key, val), key, val)
        /\ last' = [NoCall EXCEPT !.op = "Set", !.key = key, !.val = val,
                                  !.panic = Set(headers, key, val).panic]
        /\ UNCHANGED <<produced, cons>>
        /\ UNCHANGED tracingVars
        /\ UNCHANGED sharingVars

DoGet ==
    \E key \in KeyInputs :
        /\ last' = [NoCall EXCEPT !.op = "Get", !.key = key, !.ret = Get(headers, key)]
        /\ UNCHANGED <<headers, setLog, onlySet, lastSet, produced, cons>>
        /\ UNCHANGED tracingVars
        /\ UNCHANGED sharingVars

DoKeys ==
    /\ last' = [NoCall EXCEPT !.op = "Keys", !.keys = Keys(headers)]
    /\ UNCHANGED <<headers, setLog, onlySet, lastSet, produced, cons>>
    /\ UNCHANGED tracingVars
    /\ UNCHANGED sharingVars

\* another writer of the table stores an entry directly: any key, any value type
WriteDirect(key, val) ==
    /\ ~headers.isNil
    /\ Cardinality((DOMAIN headers.m) \cup {key}) <= MaxEntries
    /\ headers' = MapStore(headers, key, val)
    /\ setLog' = <<>>
    /\ onlySet' = FALSE
    /\ lastSet' = NoSet
    /\ produced' = NoProducer
    /\ last' = NoCall
    /\ UNCHANGED cons
    /\ UNCHANGED tracingVars
    /\ UNCHANGED sharingVars

\* the transport changes the case of one stored key in transit
Recase(old, new) ==
    /\ new # old
    /\ ToLower(new) = ToLower(old)
    /\ new \notin DOMAIN headers.m
    /\ headers' = [headers EXCEPT !.m =
                      [k \in ((DOMAIN headers.m) \ {old}) \cup {new} |->
                          IF k = new THEN headers.m[old] ELSE headers.m[k]]]
    /\ setLog' = <<>>
    /\ onlySet' = FALSE
    /\ lastSet' = NoSet
    /\ produced' = NoProducer
    /\ last' = NoCall
    /\ UNCHANGED cons
    /\ UNCHANGED tracingVars
    /\ UNCHANGED sharingVars

DirectWrite ==
    \E key \in StoredKeyInputs, val \in {IntValue, StringValue(Val_bar)} :
        WriteDirect(key, val)

Transit ==
    \E old \in DOMAIN headers.m, new \in StoredKeyInputs : Recase(old, new)

Next ==
    \/ NewMessage
    \/ DoSet
    \/ DoGet
    \/ DoKeys
    \/ DirectWrite
    \/ Transit

Spec == Init /\ [][Next]_vars

----------------------------------------------------------------------------
(* Producer and consumer of one message: the message is written by the producer,
   other writers and the transport, then delivered and consumed once *)

\* contexts the producer injects: those of its spans, sampled or not, the
\* background context, and contexts whose span context lacks one of the two ids
ContextInputs ==
    {[Background EXCEPT !.sc = InputSpanContext(t, s, sampled), !.recording = sampled] :
        t \in 1..MaxId, s \in 1..MaxId, sampled \in BOOLEAN}
    \cup {Background,
          [Background EXCEPT !.sc = InputSpanContext(0, 1, FALSE)],
          [Background EXCEPT !.sc = InputSpanContext(1, 0, FALSE)]}

\* the step of an Inject through carrier c that ended as r
Injected(ctx, c, r) ==
    /\ ~cons.done
    /\ headers' = WriteBack(c, headers, r.h)
    /\ setLog' = <<>>
    /\ onlySet' = FALSE
    /\ lastSet' = NoSet
    /\ produced' = IF r.h = TableOf(c, headers) THEN produced
                   ELSE IF headers = EmptyTable /\ IsValid(ctx.sc)
                   THEN [done |-> TRUE, sc |-> ctx.sc, bag |-> ctx.bag]
                   ELSE NoProducer
    /\ last' = [NoCall EXCEPT !.op = "Inject", !.panic = r.panic, !.sc = ctx.sc]
    /\ UNCHANGED cons
    /\ UNCHANGED tracingVars
    /\ UNCHANGED sharingVars

\* amqp.AMQPPropagator.Inject(ctx, amqp.AMQPHeader(msg.Headers))
InjectStep(ctx) ==
    Injected(ctx, AMQPHeader(headers), Inject(ctx, TableOf(AMQPHeader(headers), headers)))

ProducerInject == \E ctx \in ContextInputs : InjectStep(ctx)

\* other writers: an unrelated header, and traceparent entries that are not valid
ForeignHeader ==
    \E e \in ForeignEntries : ~cons.done /\ WriteDirect(e[1], e[2])

TransitHeader ==
    \E old \in DOMAIN headers.m, new \in {Key_traceparent, Key_Traceparent} :
        ~cons.done /\ Recase(old, new)

\* the step of a NewConsumerSpan call that returned r
Consumed(tracer, typ, r) ==
    /\ ~cons.done
    /\ r.span.sc.spanID # r.span.parent.spanID
    /\ cons' = [done |-> TRUE, tracer |-> tracer, typ |-> typ,
                ctx |-> r.ctx, span |-> r.span]
    /\ headers' = r.header
    /\ UNCHANGED <<setLog, onlySet, lastSet, produced, last>>
    /\ UNCHANGED tracingVars
    /\ UNCHANGED sharingVars

\* amqp.NewConsumerSpan(tracer, delivery.Headers, queueName); the ids the generator
\* draws are valid, and a new span id differs from the parent's
Consume ==
    \E tracer \in Tracers, typ \in TypInputs, rndT \in 1..MaxId, rndS \in 1..MaxId :
        Consumed(tracer, typ,
                 NewConsumerSpan(tracer, headers, typ,
                                 MkID(TraceIDDigits, rndT), MkID(SpanIDDigits, rndS)))

NextPropagation ==
    \/ NewMessage
    \/ ProducerInject
    \/ ForeignHeader
    \/ TransitHeader
    \/ Consume

SpecPropagation == Init /\ [][NextPropagation]_vars

----------------------------------------------------------------------------
(* A message hop with baggage *)

BagKey_user == <<117, 115, 101, 114>>
BagKey_k == <<107>>

\* a value with "," and " ", which Baggage.String escapes
Val_list == <<97, 44, 32, 98>>

\* a value with "%"
Val_percent == <<53, 37>>

\* baggages of the producer: none, one member, two members in either order of
\* the map's iteration, and values that need escaping
BagInputs ==
    {<<>>,
     <<[key |-> BagKey_user, value |-> Val_x]>>,
     <<[key |-> BagKey_user, value |-> Val_x], [key |-> BagKey_k, value |-> Val_list]>>,
     <<[key |-> BagKey_k, value |-> Val_list], [key |-> BagKey_user, value |-> Val_x]>>,
     <<[key |-> BagKey_k, value |-> Val_percent]>>}

BaggageContextInputs ==
    {[Background EXCEPT !.sc = sc, !.recording = sc.sampled, !.bag = bag] :
        sc \in {EmptySpanContext} \cup {InputSpanContext(t, 1, TRUE) : t \in 1..MaxId},
        bag \in BagInputs}

\* the producer's context carries baggage
ProducerInjectBaggage == \E ctx \in BaggageContextInputs : InjectStep(ctx)

NextBaggage ==
    \/ NewMessage
    \/ ProducerInjectBaggage
    \/ Consume

SpecBaggage == Init /\ [][NextBaggage]_vars

----------------------------------------------------------------------------
(* Two goroutines calling carriers over the table of one message. A call is not
   atomic: it is entered, reaches its map access and returns. Callers may agree
   on a mutex held around each call; the carrier itself takes no lock. *)

\* the calls the goroutines make
Calls ==
    {[op |-> "Set", key |-> Key_A, val |-> Val_bar],
     [op |-> "Set", key |-> Key_A, val |-> Val_x],
     [op |-> "Set", key |-> Key_b, val |-> Val_x],
     [op |-> "Get", key |-> Key_a, val |-> EmptyString],
     [op |-> "Get", key |-> Key_B, val |-> EmptyString],
     [op |-> "Keys", key |-> EmptyString, val |-> EmptyString]}

InMap(th) == thr[th].pc = "inMap"

\* a and b are inside map accesses on the same table and a's access writes
Conflict(a, b) ==
    /\ a # b
    /\ InMap(a) /\ InMap(b)
    /\ thr[a].carrier.kind = "alias" /\ thr[b].carrier.kind = "alias"
    /\ MapAccess(thr[a].op) = "write"

DataRace == \E a \in Threads, b \in Threads : Conflict(a, b)

\* the callers agree to hold one mutex around every call on the message's headers
UseMutex ==
    /\ ~sync.locking
    /\ sync.lastDone = "none"
    /\ \A th \in Threads : thr[th] = NoThread
    /\ sync' = [sync EXCEPT !.locking = TRUE]
    /\ UNCHANGED thr
    /\ UNCHANGED messageVars
    /\ UNCHANGED tracingVars

\* h := amqp.AMQPHeader(msg.Headers) and the entry into h.Set, h.Get or h.Keys,
\* after mu.Lock() when the callers use the mutex
CallCarrier ==
    \E th \in Threads, call \in Calls :
        /\ thr[th].pc = "idle"
        /\ ~sync.fatal
        /\ sync.locking => sync.holder = "none"
        /\ thr' = [thr EXCEPT ![th] =
                      [NoThread EXCEPT !.pc = "called", !.carrier = AMQPHeader(headers),
                                       !.op = call.op, !.key = call.key,
                                       !.val = call.val]]
        /\ sync' = [sync EXCEPT !.holder = IF sync.locking THEN th ELSE @]
        /\ UNCHANGED messageVars
        /\ UNCHANGED tracingVars

\* the call reaches its map access; an access that overlaps a write of the same
\* map, or a write that overlaps any access, is a data race for both goroutines
BeginAccess ==
    \E th \in Threads :
        LET entered == [thr EXCEPT ![th].pc = "inMap"]
            clash(a, b) ==
                /\ a # b
                /\ entered[a].pc = "inMap" /\ entered[b].pc = "inMap"
                /\ entered[a].carrier.kind = "alias" /\ entered[b].carrier.kind = "alias"
                /\ "write" \in {MapAccess(entered[a].op), MapAccess(entered[b].op)}
        IN /\ thr[th].pc = "called"
           /\ ~sync.fatal
           /\ thr' = [a \in Threads |->
                        [entered[a] EXCEPT !.raced = @ \/ \E b \in Threads : clash(a, b)]]
           /\ UNCHANGED sync
           /\ UNCHANGED messageVars
           /\ UNCHANGED tracingVars

\* the result of the call on table t, computed as the method does
CallResult(t, th) ==
    IF thr[th].op = "Set"
    THEN LET r == Set(t, thr[th].key, thr[th].val)
         IN [t |-> r.h, ret |-> EmptyString, keys |-> <<>>, panic |-> r.panic]
    ELSE IF thr[th].op = "Get"
    THEN [t |-> t, ret |-> Get(t, thr[th].key), keys |-> <<>>, panic |-> FALSE]
    ELSE [t |-> t, ret |-> EmptyString, keys |-> Keys(t), panic |-> FALSE]

\* the call returns, then mu.Unlock() when the callers use the mutex. An access
\* that raced has no defined outcome: the runtime may stop the program (fatal
\* error: concurrent map writes / concurrent map read and map write), the write
\* may be lost, or the call may end as if it had run alone.
ReturnFromCall ==
    \E th \in Threads, outcome \in {"sequential", "fatal", "lost"} :
        LET c == thr[th].carrier
            r == CallResult(TableOf(c, headers), th)
            stored == IF outcome = "lost" THEN TableOf(c, headers) ELSE r.t
        IN /\ thr[th].pc = "inMap"
           /\ ~sync.fatal
           /\ outcome # "sequential" => thr[th].raced
           /\ outcome = "lost" => thr[th].op = "Set"
           /\ IF outcome = "fatal"
              THEN /\ sync' = [sync EXCEPT !.fatal = TRUE]
                   /\ UNCHANGED <<thr, headers, setLog, onlySet, lastSet>>
              ELSE /\ thr' = [thr EXCEPT ![th].pc = "idle",
                                         ![th].carrier.own = IF c.kind = "copy" THEN stored
                                                             ELSE @,
                                         ![th].ret = r.ret, ![th].keys = r.keys,
                                         ![th].panic = r.panic]
                   /\ headers' = WriteBack(c, headers, stored)
                   /\ setLog' = <<>>
                   /\ onlySet' = FALSE
                   /\ lastSet' = NoSet
                   /\ sync' = [sync EXCEPT !.holder = "none", !.lastDone = th]
           /\ UNCHANGED <<produced, last, cons>>
           /\ UNCHANGED tracingVars

NextSharing ==
    \/ UseMutex
    \/ CallCarrier
    \/ BeginAccess
    \/ ReturnFromCall

SpecSharing == Init /\ [][NextSharing]_vars

----------------------------------------------------------------------------
(* Installation, spans and log fields of one process *)

\* parents of a new span: the background context, and contexts carrying the span
\* context of a remote caller, sampled or not
RemoteParent(sampled) ==
    [Background EXCEPT !.sc = [InputSpanContext(1, 1, sampled) EXCEPT !.remote = TRUE]]

ParentInputs == {Background, RemoteParent(TRUE), RemoteParent(FALSE)}

\* tracerProvider, err := tracing.Install(cfgs)
DoInstall ==
    \E enabled \in BOOLEAN, exporterErr \in BOOLEAN :
        LET r == Install(env, enabled, exporterErr)
        IN /\ env.created < MaxProviders
           /\ env' = r.env
           /\ inst' = [done |-> TRUE, enabled |-> enabled, provider |-> r.provider,
                       err |-> r.err, path |-> r.path]
           /\ UNCHANGED <<cur, fmt>>
           /\ UNCHANGED messageVars
           /\ UNCHANGED sharingVars

\* ctx, span := tracer.Start(parent, name), the tracer taken from otel's global
\* provider or from cfgs.TracerProvider; the parent is the background context or
\* carries the span context of a remote caller
StartSpan ==
    \E provider \in {env.globalTracerProvider, env.cfgTracerProvider},
       parent \in ParentInputs, rndT \in 1..MaxId, rndS \in 1..MaxId :
        /\ provider.kind # "nil"
        /\ MkID(SpanIDDigits, rndS) # parent.sc.spanID
        /\ cur' = ProviderStart(provider, parent,
                                MkID(TraceIDDigits, rndT), MkID(SpanIDDigits, rndS))
        /\ UNCHANGED <<env, inst, fmt>>
        /\ UNCHANGED messageVars
        /\ UNCHANGED sharingVars

\* span.End(): the span in the context is finished and stops recording
EndSpan ==
    /\ cur.recording
    /\ cur' = [cur EXCEPT !.recording = FALSE, !.ended = TRUE]
    /\ UNCHANGED <<env, inst, fmt>>
    /\ UNCHANGED messageVars
    /\ UNCHANGED sharingVars

\* logger.Info(msg, tracing.Format(ctx))
DoFormat ==
    /\ fmt' = [done |-> TRUE, ctx |-> cur, field |-> Format(cur)]
    /\ UNCHANGED <<env, inst, cur>>
    /\ UNCHANGED messageVars
    /\ UNCHANGED sharingVars

NextInstall ==
    \/ DoInstall
    \/ StartSpan
    \/ EndSpan
    \/ DoFormat

SpecInstall == Init /\ [][NextInstall]_vars

----------------------------------------------------------------------------
(* Vocabulary of the properties, stated on the bytes and not through ToLower *)

SameLetter(c, d) ==
    \/ c = d
    \/ IsUpper(c) /\ d = c + 32
    \/ IsUpper(d) /\ c = d + 32

\* s and t differ at most in letter case
FoldEq(s, t) ==
    /\ Len(s) = Len(t)
    /\ \A i \in DOMAIN s : SameLetter(s[i], t[i])

\* l is the lower-case form of k
IsLowerFormOf(l, k) ==
    /\ FoldEq(l, k)
    /\ \A i \in DOMAIN l : ~IsUpper(l[i])

Ascending(q) == \A i, j \in DOMAIN q : i < j => StrLess(q[i], q[j])

Elements(q) == {q[i] : i \in DOMAIN q}

----------------------------------------------------------------------------
(* The header carrier's properties *)

\* C1: Get(k2) right after Set(k1, v) returns v whenever k1 and k2 differ only in
\* letter case, whatever the table held before the Set.
C1_CaseInsensitiveRoundTrip ==
    (last.op = "Get" /\ lastSet.done /\ FoldEq(last.key, lastSet.key))
        => last.ret = lastSet.val

C1_Witness ==
    /\ last.op = "Get"
    /\ lastSet.done
    /\ last.key # lastSet.key
    /\ FoldEq(last.key, lastSet.key)
    /\ last.ret = lastSet.val
    /\ Cardinality(DOMAIN headers.m) > 1

\* C4 (as claimed): in every state of the table, Get(k) returns the string value of
\* the one entry whose stored key equals k up to letter case, also when the stored
\* key is not lower-case.
C4_GetFindsKeyOfAnyCase ==
    last.op = "Get" =>
        \A sk \in DOMAIN headers.m :
            ( /\ FoldEq(sk, last.key)
              /\ headers.m[sk].kind = "string"
              /\ \A other \in DOMAIN headers.m : FoldEq(other, last.key) => other = sk )
            => last.ret = headers.m[sk].s

\* C5: after Set calls alone on a table created empty, Keys() is strictly ascending
\* (so without duplicates) and holds exactly the lower-case forms of the keys set;
\* "b", "A", "c" set in that order give ["a", "b", "c"].
C5_KeysSortedNormalized ==
    (last.op = "Keys" /\ onlySet) =>
        /\ Ascending(last.keys)
        /\ \A k \in Elements(setLog) : \E l \in Elements(last.keys) : IsLowerFormOf(l, k)
        /\ \A l \in Elements(last.keys) : \E k \in Elements(setLog) : IsLowerFormOf(l, k)
        /\ setLog = <<Key_b, Key_A, Key_c>> => last.keys = <<Key_a, Key_b, Key_c>>

C5_Witness ==
    /\ last.op = "Keys"
    /\ onlySet
    /\ setLog = <<Key_b, Key_A, Key_c>>
    /\ last.keys = <<Key_a, Key_b, Key_c>>

\* C6: Get(k) returns the empty string, and does not fail, when the table (nil and
\* empty tables included) has no entry under the lower-case form of k, and when the
\* entry there holds a value that is not a string.
C6_GetAbsentOrWrongType ==
    last.op = "Get" =>
        LET absent == \A sk \in DOMAIN headers.m : ~IsLowerFormOf(sk, last.key)
            wrongType == \E sk \in DOMAIN headers.m :
                            IsLowerFormOf(sk, last.key) /\ headers.m[sk].kind # "string"
        IN (absent \/ wrongType) => (last.ret = EmptyString /\ ~last.panic)

C6_Witness ==
    /\ last.op = "Get"
    /\ \E sk \in DOMAIN headers.m :
          IsLowerFormOf(sk, last.key) /\ headers.m[sk].kind = "int"
    /\ last.ret = EmptyString

\* C7 (as claimed): Set completes without a panic on every carrier, a carrier over
\* a nil table included.
C7_SetAlwaysSucceeds == last.op = "Set" => ~last.panic

\* C7 (amended): Set panics exactly when the wrapped table is nil; on every other
\* table it completes and leaves the value under the lower-case form of the key.
C7_SetSucceedsOnNonNilTable ==
    last.op = "Set" =>
        /\ last.panic <=> headers.isNil
        /\ ~last.panic =>
              \E sk \in DOMAIN headers.m :
                  IsLowerFormOf(sk, last.key) /\ headers.m[sk] = StringValue(last.val)

C7_Witness ==
    /\ last.op = "Set"
    /\ ~last.panic
    /\ ~headers.isNil
    /\ \E sk \in DOMAIN headers.m : sk # last.key /\ IsLowerFormOf(sk, last.key)

\* C17: a Set(k, v) that returns leaves v, as a string, in the one entry under the
\* lower-case form of k, whatever that entry held before, adds no other key and
\* leaves every other entry as it was; a Set that panics, a Get and a Keys leave
\* the table as it was, and a Get or Keys repeated at once returns the same result.
C17_SetOverwritesOneEntry ==
    [][/\ last'.op = "Set" =>
             IF last'.panic THEN headers' = headers
             ELSE \E lk \in DOMAIN headers'.m :
                     /\ IsLowerFormOf(lk, last'.key)
                     /\ headers'.m[lk] = StringValue(last'.val)
                     /\ DOMAIN headers'.m = (DOMAIN headers.m) \cup {lk}
                     /\ \A k \in (DOMAIN headers.m) \ {lk} : headers'.m[k] = headers.m[k]
       /\ last'.op \in {"Get", "Keys"} => headers' = headers
       /\ (last'.op = "Get" /\ last.op = "Get" /\ last'.key = last.key) =>
             last'.ret = last.ret
       /\ (last'.op = "Keys" /\ last.op = "Keys") => last'.keys = last.keys]_vars

C17_Witness ==
    /\ last.op = "Set"
    /\ ~last.panic
    /\ last.key = Key_Ab
    /\ headers.m[<<97, 98>>] = StringValue(last.val)
    /\ Key_Ab \in DOMAIN headers.m
    /\ headers.m[Key_Ab] = IntValue
    /\ Cardinality(DOMAIN headers.m) = 3

----------------------------------------------------------------------------
(* Propagation across the message hop *)

IsLowerHexChar(c) == c \in 48..57 \/ c \in 97..102

\* str is the lower-case hex form of id, digit by digit
IsStringFormOf(str, id) ==
    /\ Len(str) = Len(id)
    /\ \A i \in DOMAIN str : IsLowerHexChar(str[i]) /\ FromHexChar(str[i]) = id[i]

\* v is a version-00 traceparent value of the W3C form
\* 00-<32 lower-case hex>-<16 lower-case hex>-<2 lower-case hex>, ids not all zero
WellFormedTraceparent(v) ==
    /\ Len(v) = 2 + 1 + TraceIDDigits + 1 + SpanIDDigits + 1 + 2
    /\ v[1] = 48 /\ v[2] = 48
    /\ \A i \in DOMAIN v :
          IF i \in {3, 4 + TraceIDDigits, 5 + TraceIDDigits + SpanIDDigits}
          THEN v[i] = 45
          ELSE IsLowerHexChar(v[i])
    /\ \E i \in 4..(3 + TraceIDDigits) : v[i] # 48
    /\ \E i \in (5 + TraceIDDigits)..(4 + TraceIDDigits + SpanIDDigits) : v[i] # 48
    /\ v[Len(v) - 1] = 48 /\ v[Len(v)] \in 48..50

\* the table holds a valid trace-context entry under a key that is "traceparent"
\* up to letter case
HoldsTraceContext ==
    \E sk \in DOMAIN headers.m :
        /\ FoldEq(sk, Key_traceparent)
        /\ headers.m[sk].kind = "string"
        /\ WellFormedTraceparent(headers.m[sk].s)

IsRoot(span) == ~IsValid(span.parent) /\ IsValid(span.sc)

C3_DegradesToRoot ==
    (cons.done /\ ~HoldsTraceContext) =>
        /\ IsRoot(cons.span)
        /\ cons.ctx.sc = cons.span.sc

C3_Witness ==
    /\ cons.done
    /\ Key_foo \in DOMAIN headers.m
    /\ Key_traceparent \in DOMAIN headers.m
    /\ headers.m[Key_traceparent] = StringValue(TP_UpperHex)
    /\ IsRoot(cons.span)

\* the traceparent value v carries the two ids of sc, digit by digit
EncodesBoth(v, sc) ==
    /\ WellFormedTraceparent(v)
    /\ IsStringFormOf(SubSeq(v, 4, 3 + TraceIDDigits), sc.traceID)
    /\ IsStringFormOf(SubSeq(v, 5 + TraceIDDigits, 4 + TraceIDDigits + SpanIDDigits),
                      sc.spanID)

HasTraceparentKey(h) == \E sk \in DOMAIN h.m : FoldEq(sk, Key_traceparent)

\* C11 (as claimed): after Inject returns, the table holds an entry with both ids
\* of the context's span context when that is valid, and holds no trace-context
\* entry at all when it is not valid, whatever the table held before.
C11_InjectBothOrNoEntry ==
    (last.op = "Inject" /\ ~last.panic) =>
        IF IsValid(last.sc)
        THEN /\ Key_traceparent \in DOMAIN headers.m
             /\ headers.m[Key_traceparent].kind = "string"
             /\ EncodesBoth(headers.m[Key_traceparent].s, last.sc)
        ELSE ~HasTraceparentKey(headers)

\* C11 (amended): Inject of a valid span context into a non-nil table leaves under
\* "traceparent" one well-formed value carrying both its trace id and its span id;
\* Inject of a span context that is not valid (no ids, or only one of the two)
\* writes no trace-context entry and leaves those of the table as they were, so a
\* table without a trace-context entry stays without one and an earlier entry
\* stays in place.
C11_InjectWritesBothOrNothing ==
    [][last'.op = "Inject" =>
          IF IsValid(last'.sc) /\ ~last'.panic
          THEN /\ Key_traceparent \in DOMAIN headers'.m
               /\ headers'.m[Key_traceparent].kind = "string"
               /\ EncodesBoth(headers'.m[Key_traceparent].s, last'.sc)
          ELSE \A sk \in (DOMAIN headers.m) \cup (DOMAIN headers'.m) :
                   FoldEq(sk, Key_traceparent) =>
                       /\ sk \in DOMAIN headers.m
                       /\ sk \in DOMAIN headers'.m
                       /\ headers'.m[sk] = headers.m[sk]]_vars

C11_Witness ==
    /\ last.op = "Inject"
    /\ ~last.panic
    /\ IsZero(last.sc.traceID)
    /\ ~IsZero(last.sc.spanID)
    /\ Key_foo \in DOMAIN headers.m
    /\ ~HasTraceparentKey(headers)

\* C15: the span NewConsumerSpan starts is named "consume." followed by typ, byte
\* for byte, for the empty typ too (the name is then "consume."), with and
\* without a valid trace context in the headers.
C15_ConsumerSpanName ==
    cons.done =>
        /\ Len(cons.span.name) = 8 + Len(cons.typ)
        /\ SubSeq(cons.span.name, 1, 8) = <<99, 111, 110, 115, 117, 109, 101, 46>>
        /\ SubSeq(cons.span.name, 9, Len(cons.span.name)) = cons.typ

C15_Witness ==
    /\ cons.done
    /\ cons.typ = EmptyString
    /\ cons.span.name = <<99, 111, 110, 115, 117, 109, 101, 46>>
    /\ HoldsTraceContext
    /\ IsValid(cons.span.parent)

C15_WitnessRoot ==
    /\ cons.done
    /\ cons.typ = Typ_orders
    /\ Len(cons.span.name) = 14
    /\ ~HoldsTraceContext
    /\ IsRoot(cons.span)

\* C19: NewConsumerSpan leaves the header table it is given as it was, entry for
\* entry, and on a nil table it returns a root span and a context carrying that
\* span and no baggage.
C19_ExtractionReadsOnly ==
    [][(cons'.done /\ ~cons.done) =>
          /\ headers'.isNil = headers.isNil
          /\ DOMAIN headers'.m = DOMAIN headers.m
          /\ \A k \in DOMAIN headers.m : headers'.m[k] = headers.m[k]
          /\ headers.isNil =>
                /\ IsRoot(cons'.span)
                /\ cons'.ctx.sc = cons'.span.sc
                /\ cons'.ctx.bag = <<>>]_vars

C19_Witness ==
    /\ cons.done
    /\ headers.isNil
    /\ IsRoot(cons.span)
    /\ cons.ctx.sc = cons.span.sc

C19_WitnessEntriesKept ==
    /\ cons.done
    /\ ~IsRoot(cons.span)
    /\ Key_foo \in DOMAIN headers.m
    /\ Key_traceparent \in DOMAIN headers.m

MembersOf(bag) == {bag[i] : i \in DOMAIN bag}

\* C14: when the producer's context carries baggage members and a valid span
\* context and is injected into a fresh table, the table holds a traceparent and a
\* baggage entry, and the context NewConsumerSpan returns on that table carries
\* the same baggage members, each once, and the producer's trace id.
C14_BaggageCrossesHop ==
    (cons.done /\ produced.done /\ produced.bag # <<>>) =>
        /\ Key_traceparent \in DOMAIN headers.m
        /\ Key_baggage \in DOMAIN headers.m
        /\ MembersOf(cons.ctx.bag) = MembersOf(produced.bag)
        /\ Len(cons.ctx.bag) = Len(produced.bag)
        /\ cons.ctx.sc.traceID = produced.sc.traceID
        /\ cons.span.parent.spanID = produced.sc.spanID

C14_Witness ==
    /\ cons.done
    /\ produced.done
    /\ Len(produced.bag) = 2
    /\ produced.bag[1].value = Val_list
    /\ headers.m[Key_baggage] # StringValue(BagKey_k \o KeyValueDelimiter \o Val_list
                                               \o ListDelimiter \o BagKey_user
                                               \o KeyValueDelimiter \o Val_x)
    /\ MembersOf(cons.ctx.bag) = MembersOf(produced.bag)
    /\ cons.ctx.sc.traceID = produced.sc.traceID

----------------------------------------------------------------------------
(* Carriers over a shared table *)

\* table t holds the string val under the lower-case form of key
HoldsUnderLowerKey(t, key, val) ==
    \E sk \in DOMAIN t.m : IsLowerFormOf(sk, key) /\ t.m[sk] = StringValue(val)

\* th made the latest call to return, and no map access raced with it
ReturnedLast(th, op) ==
    /\ sync.lastDone = th
    /\ thr[th].pc = "idle"
    /\ thr[th].op = op
    /\ ~thr[th].raced

\* C13: the carrier is the message's table, not a copy of it. Once a Set made
\* through one carrier has returned, the value is in the message's table itself
\* and in the table every other carrier built over it reads; a Get through any
\* carrier returns what the message's table holds.
C13_CarrierWrapsTable ==
    \A th \in Threads :
        /\ (ReturnedLast(th, "Set") /\ ~thr[th].panic) =>
              /\ HoldsUnderLowerKey(headers, thr[th].key, thr[th].val)
              /\ \A o \in Threads :
                    thr[o].carrier.kind # "none" =>
                        HoldsUnderLowerKey(TableOf(thr[o].carrier, headers),
                                           thr[th].key, thr[th].val)
        /\ ReturnedLast(th, "Get") =>
              \A v \in {Val_bar, Val_x} :
                  HoldsUnderLowerKey(headers, thr[th].key, v) => thr[th].ret = v

C13_Witness ==
    /\ ReturnedLast("other", "Get")
    /\ thr["other"].key = Key_a
    /\ thr["other"].ret = Val_x
    /\ thr["producer"].pc = "idle"
    /\ thr["producer"].op = "Set"
    /\ thr["producer"].key = Key_A
    /\ thr["producer"].val = Val_x
    /\ headers.m[Key_a] = StringValue(Val_x)

\* C16: the carrier takes no lock. Whenever two goroutines are inside map
\* accesses of carriers over the same table and one of them is in Set, the map is
\* accessed while a write is in progress (a data race); when every call is made
\* under one mutex, no two calls overlap, no access races and no fatal error occurs.
C16_RaceUnlessMutex ==
    /\ \A a \in Threads, b \in Threads :
          (a # b /\ InMap(a) /\ InMap(b) /\ thr[a].op = "Set") => DataRace
    /\ sync.locking =>
          /\ ~DataRace
          /\ ~sync.fatal
          /\ \A th \in Threads : ~thr[th].raced
          /\ \A a \in Threads, b \in Threads :
                (thr[a].pc # "idle" /\ thr[b].pc # "idle") => a = b

C16_Witness ==
    /\ ~sync.locking
    /\ DataRace
    /\ InMap("producer") /\ thr["producer"].op = "Set"
    /\ InMap("other") /\ thr["other"].op = "Get"
    /\ ~headers.isNil

----------------------------------------------------------------------------
(* Log fields and installation *)

\* C8: Format returns the Skip field for a context without span or with a span
\* that is not recording, whatever ids it carries; for a recording span it returns
\* a field with trace_id and span_id holding the string forms of the span's ids.
C8_FormatFollowsRecording ==
    fmt.done =>
        IF fmt.ctx.recording
        THEN /\ fmt.field.type = "Inline"
             /\ Len(fmt.field.fields) = 2
             /\ fmt.field.fields[1].key = "trace_id"
             /\ IsStringFormOf(fmt.field.fields[1].str, fmt.ctx.sc.traceID)
             /\ fmt.field.fields[2].key = "span_id"
             /\ IsStringFormOf(fmt.field.fields[2].str, fmt.ctx.sc.spanID)
        ELSE fmt.field = Skip

C8_Witness ==
    /\ fmt.done
    /\ fmt.ctx.recording
    /\ fmt.field.type = "Inline"
    /\ IsStringFormOf(fmt.field.fields[2].str, MkID(SpanIDDigits, MaxId))

C8_WitnessSkip ==
    /\ fmt.done
    /\ ~fmt.ctx.recording
    /\ IsValid(fmt.ctx.sc)
    /\ fmt.field = Skip

\* C12: Format follows the span's lifecycle. Called on the context of a span that
\* was started recording and has not ended, it returns the field with the ids of
\* that span; called after span.End(), it returns the Skip field and no ids.
C12_FormatFollowsLifecycle ==
    fmt.done =>
        /\ (fmt.ctx.recording /\ ~fmt.ctx.ended) =>
              /\ fmt.field.type = "Inline"
              /\ {f.key : f \in Elements(fmt.field.fields)} = {"trace_id", "span_id"}
              /\ \A f \in Elements(fmt.field.fields) :
                    IsStringFormOf(f.str, IF f.key = "trace_id" THEN fmt.ctx.sc.traceID
                                          ELSE fmt.ctx.sc.spanID)
        /\ fmt.ctx.ended => (fmt.field = Skip /\ fmt.field.fields = <<>>)

C12_Witness ==
    /\ fmt.done
    /\ fmt.ctx.ended
    /\ fmt.ctx = cur
    /\ IsValid(fmt.ctx.sc)
    /\ fmt.ctx.sc.sampled
    /\ fmt.field = Skip

\* C9 (as claimed): after a successful Install, with Enabled true or false, the
\* provider returned is otel's global tracer provider and cfgs.TracerProvider.
C9_InstalledProviderIsGlobal ==
    (inst.done /\ ~inst.err) =>
        /\ env.globalTracerProvider = inst.provider
        /\ env.cfgTracerProvider = inst.provider

\* C10: Install takes the OTLP path exactly when Enabled is true, else the no-op
\* path; the no-op path returns a provider and no error; every successful return
\* gives the provider stored in cfgs.TracerProvider.
C10_ExporterSelection ==
    inst.done =>
        /\ inst.path \in {"otlp", "noop"}
        /\ (inst.path = "otlp") <=> inst.enabled
        /\ inst.path = "noop" => (inst.provider # NilProvider /\ ~inst.err)
        /\ ~inst.err => ( /\ inst.provider # NilProvider
                          /\ inst.provider.kind = inst.path
                          /\ inst.provider = env.cfgTracerProvider )

C10_Witness ==
    /\ inst.done
    /\ inst.enabled
    /\ ~inst.err
    /\ inst.path = "otlp"
    /\ inst.provider = env.cfgTracerProvider
    /\ env.created > 1

\* C18: an Install that fails is one on the OTLP path (Enabled true); it returns a
\* nil provider with the error, and cfgs.TracerProvider, the global tracer provider
\* and the global propagator are what they were before the call.
C18_FailedInstallChangesNothing ==
    [][(inst'.done /\ inst'.err) =>
          /\ inst'.enabled
          /\ inst'.path = "otlp"
          /\ inst'.provider = NilProvider
          /\ env'.cfgTracerProvider = env.cfgTracerProvider
          /\ env'.globalTracerProvider = env.globalTracerProvider
          /\ env'.globalPropagator = env.globalPropagator]_vars

C18_Witness ==
    /\ inst.done
    /\ inst.err
    /\ inst.provider = NilProvider
    /\ env.cfgTracerProvider.kind = "noop"
    /\ env.globalTracerProvider = DefaultGlobalProvider
    /\ env.globalPropagator = "default"

C18_WitnessAfterOtlp ==
    /\ inst.done
    /\ inst.err
    /\ env.cfgTracerProvider.kind = "otlp"
    /\ env.globalTracerProvider = env.cfgTracerProvider
    /\ env.globalPropagator = "TraceContext"

====
